---- MODULE Spec2Model ----
(***************************************************************************)
(* libavcodec/libsvt_vp9.c: the SVT-VP9 encoder adapter.                   *)
(*                                                                         *)
(* The adapter context (SvtContext), the four codec callbacks              *)
(* (eb_enc_init, eb_send_frame, eb_receive_packet, eb_enc_close) and the   *)
(* helpers they call (error_mapping, free_buffer, alloc_buffer,            *)
(* config_enc_params, read_in_data).  The encoder engine is opaque: each   *)
(* engine call is an input whose return value is drawn from the values     *)
(* that entry point can give back.                                         *)
(***************************************************************************)
EXTENDS Integers, Sequences, FiniteSets, TLC

(***************************************************************************)
(* Bounds of the model.                                                    *)
(***************************************************************************)
\* send_frame / receive_packet calls the host makes on one instance
MaxCalls == 4

(***************************************************************************)
(* Host error codes (libavutil/error.h, errno.h).                          *)
(***************************************************************************)
AVERROR_ENOMEM == -12
AVERROR_EINVAL == -22
AVERROR_EAGAIN == -11
AVERROR_EXTERNAL == -542398533
AVERROR_UNKNOWN == -1313558101
AVERROR_EOF == -541478725

(***************************************************************************)
(* Engine error enumeration EbErrorType (EbSvtVp9ErrorCodes.h), as the     *)
(* 32-bit values the enumerators have.                                     *)
(***************************************************************************)
EB_ErrorNone == 0
EB_ErrorInsufficientResources == -2147479552
EB_ErrorUndefined == -2147479551
EB_ErrorInvalidComponent == -2147479548
EB_ErrorBadParameter == -2147479547
EB_ErrorDestroyThreadFailed == -2147475438
EB_ErrorSemaphoreUnresponsive == -2147475423
EB_ErrorDestroySemaphoreFailed == -2147475422
EB_ErrorCreateMutexFailed == -2147475408
EB_ErrorMutexUnresponsive == -2147475407
EB_ErrorDestroyMutexFailed == -2147475406
EB_NoErrorEmptyQueue == -2147475405
\* enumerators the switch of error_mapping does not list
EB_ErrorCreateThreadFailed == -2147475440
EB_ErrorMax == 2147483647

\* every enumerator the model feeds to error_mapping
EbErrorCodes ==
    { EB_ErrorNone, EB_ErrorInsufficientResources, EB_ErrorUndefined,
      EB_ErrorInvalidComponent, EB_ErrorBadParameter,
      EB_ErrorDestroyThreadFailed, EB_ErrorSemaphoreUnresponsive,
      EB_ErrorDestroySemaphoreFailed, EB_ErrorCreateMutexFailed,
      EB_ErrorMutexUnresponsive, EB_ErrorDestroyMutexFailed,
      EB_NoErrorEmptyQueue, EB_ErrorCreateThreadFailed, EB_ErrorMax }

(***************************************************************************)
(* enum eos_status.                                                        *)
(***************************************************************************)
EOS_NOT_REACHED == 0
EOS_REACHED == 1
EOS_TOTRIGGER == 2

(***************************************************************************)
(* Buffer flags of the engine (EbSvtVp9Enc.h).                             *)
(***************************************************************************)
EB_BUFFERFLAG_EOS == 1
EB_BUFFERFLAG_SHOW_EXT == 2

\* flags & bit, for a single-bit mask
HasFlag(flags, bit) == (flags \div bit) % 2 = 1

(***************************************************************************)
(* Integer conversions of C.                                               *)
(***************************************************************************)
\* to uint8_t.  The 32-bit fields (uint32_t, int, EbErrorType) hold every
\* value drawn here unchanged: all of them lie within 32 bits, and the
\* values stored in unsigned fields are not negative.
U8(x) == x % 256

(***************************************************************************)
(* error_mapping.  The case EB_NoErrorEmptyQueue has no break: control     *)
(* falls into the case EB_ErrorNone, which overwrites err.                 *)
(***************************************************************************)
error_mapping(svt_ret) ==
    CASE svt_ret = EB_ErrorInsufficientResources -> AVERROR_ENOMEM
      [] svt_ret \in { EB_ErrorUndefined, EB_ErrorInvalidComponent,
                       EB_ErrorBadParameter } -> AVERROR_EINVAL
      [] svt_ret \in { EB_ErrorDestroyThreadFailed,
                       EB_ErrorSemaphoreUnresponsive,
                       EB_ErrorDestroySemaphoreFailed,
                       EB_ErrorCreateMutexFailed,
                       EB_ErrorMutexUnresponsive,
                       EB_ErrorDestroyMutexFailed } -> AVERROR_EXTERNAL
      [] svt_ret = EB_NoErrorEmptyQueue ->
            LET err1 == AVERROR_EAGAIN      \* line 92, then falls through
                err2 == 0                   \* line 95
            IN  err2
      [] svt_ret = EB_ErrorNone -> 0
      [] OTHER -> AVERROR_UNKNOWN

(***************************************************************************)
(* The reusable input descriptor (EbBufferHeaderType *in_buf) and the      *)
(* output pool.  ptr / p_buffer / pool say whether the pointer is set.     *)
(***************************************************************************)
NullBuf ==
    [ ptr |-> FALSE, p_buffer |-> FALSE, n_filled_len |-> 0,
      flags |-> 0, pic_type |-> "unset" ]

\* how many times the descriptor, its payload and the pool were allocated
\* or released
NoCounts == [ desc |-> 0, payload |-> 0, pool |-> 0 ]

AddCounts(a, b) ==
    [ desc |-> a.desc + b.desc, payload |-> a.payload + b.payload,
      pool |-> a.pool + b.pool ]

\* free_buffer with av_free in place of av_freep and the pool pointer left
\* as it is: the memory is released and the pointers are not cleared
free_buffer_keeps_pointers(buf, pl) ==
    [ in_buf |-> buf, pool |-> pl,
      rel |-> [ desc    |-> IF buf.ptr THEN 1 ELSE 0,
                payload |-> IF buf.ptr /\ buf.p_buffer THEN 1 ELSE 0,
                pool    |-> IF pl THEN 1 ELSE 0 ] ]

\* free_buffer: releases the payload and the descriptor when the descriptor
\* is set (av_freep of a null payload releases nothing), and uninitialises
\* the pool when it is set; both pointers end null.  rel counts what was
\* released.
free_buffer(buf, pl) ==
    [ in_buf |-> NullBuf, pool |-> FALSE,
      rel |-> [ desc    |-> IF buf.ptr THEN 1 ELSE 0,
                payload |-> IF buf.ptr /\ buf.p_buffer THEN 1 ELSE 0,
                pool    |-> IF pl THEN 1 ELSE 0 ] ]

\* which allocation of alloc_buffer fails, if any
AllocOutcomes == { "ok", "in_buf", "p_buffer", "pool" }

\* alloc_buffer: raw_size and the three allocations; any failure frees what
\* was allocated and returns AVERROR(ENOMEM).  got counts what was
\* allocated, rel what the failure path released.
alloc_buffer(config, outcome) ==
    LET luma_size_8bit  == config.source_width * config.source_height
        luma_size_10bit == IF config.encoder_bit_depth > 8
                           THEN luma_size_8bit ELSE 0
        raw == ((luma_size_8bit + luma_size_10bit) * 3) \div 2
        b1  == [ NullBuf EXCEPT !.ptr = TRUE ]
        b2  == [ b1 EXCEPT !.p_buffer = TRUE ]
    IN  CASE outcome = "in_buf" ->
               [ ret |-> AVERROR_ENOMEM, raw_size |-> raw,
                 in_buf |-> free_buffer(NullBuf, FALSE).in_buf,
                 pool |-> free_buffer(NullBuf, FALSE).pool,
                 got |-> NoCounts,
                 rel |-> free_buffer(NullBuf, FALSE).rel ]
          [] outcome = "p_buffer" ->
               [ ret |-> AVERROR_ENOMEM, raw_size |-> raw,
                 in_buf |-> free_buffer(b1, FALSE).in_buf,
                 pool |-> free_buffer(b1, FALSE).pool,
                 got |-> [ NoCounts EXCEPT !.desc = 1 ],
                 rel |-> free_buffer(b1, FALSE).rel ]
          [] outcome = "pool" ->
               [ ret |-> AVERROR_ENOMEM, raw_size |-> raw,
                 in_buf |-> free_buffer(b2, FALSE).in_buf,
                 pool |-> free_buffer(b2, FALSE).pool,
                 got |-> [ NoCounts EXCEPT !.desc = 1, !.payload = 1 ],
                 rel |-> free_buffer(b2, FALSE).rel ]
          [] OTHER ->
               [ ret |-> 0, raw_size |-> raw, in_buf |-> b2, pool |-> TRUE,
                 got |-> [ desc |-> 1, payload |-> 1, pool |-> 1 ],
                 rel |-> NoCounts ]

(***************************************************************************)
(* The engine configuration after eb_vp9_svt_init_handle wrote the         *)
(* engine's defaults into it.  config_enc_params leaves a field at its     *)
(* default when it does not assign it.                                     *)
(***************************************************************************)
EngineDefaults ==
    [ source_width |-> 0, source_height |-> 0,
      enc_mode |-> 9, level |-> 0, rate_control_mode |-> 0, tune |-> 0,
      base_layer_switch_mode |-> 0, qp |-> 45,
      target_bit_rate |-> 0, intra_period |-> 31,
      frame_rate_numerator |-> 0, frame_rate_denominator |-> 0,
      max_qp_allowed |-> 63, min_qp_allowed |-> 0,
      intra_refresh_type |-> 0, encoder_bit_depth |-> 8 ]

(***************************************************************************)
(* config_enc_params, the part that fills the configuration (lines 157 to  *)
(* 196).  ctx is the AVCodecContext, o the user options of SvtContext.     *)
(***************************************************************************)
\* frame-rate selection with the denominator test dropped
ConfigFrameRateNumOnly(ctx) ==
    IF ctx.framerate.num > 0
    THEN [ num |-> ctx.framerate.num,
           den |-> ctx.framerate.den * ctx.ticks_per_frame ]
    ELSE [ num |-> ctx.time_base.den,
           den |-> ctx.time_base.num * ctx.ticks_per_frame ]

\* lines 178 to 184
ConfigFrameRate(ctx) ==
    IF ctx.framerate.num > 0 /\ ctx.framerate.den > 0
    THEN [ num |-> ctx.framerate.num,
           den |-> ctx.framerate.den * ctx.ticks_per_frame ]
    ELSE [ num |-> ctx.time_base.den,
           den |-> ctx.time_base.num * ctx.ticks_per_frame ]

\* the option copy with the tune and rate-control sources exchanged
OptionFieldsExchanged(param, o) ==
    [ param EXCEPT
        !.enc_mode               = U8(o.enc_mode),
        !.level                  = o.level,
        !.rate_control_mode      = o.tune,
        !.tune                   = U8(o.rc_mode),
        !.base_layer_switch_mode = o.base_layer_switch_mode,
        !.qp                     = o.qp ]

\* "Update param from options", lines 167 to 172
OptionFields(param, o) ==
    [ param EXCEPT
        !.enc_mode               = U8(o.enc_mode),
        !.level                  = o.level,
        !.rate_control_mode      = o.rc_mode,
        !.tune                   = U8(o.tune),
        !.base_layer_switch_mode = o.base_layer_switch_mode,
        !.qp                     = o.qp ]

ConfigParams(param, ctx, o) ==
    LET ten_bits == (ctx.pix_fmt = "AV_PIX_FMT_YUV420P10LE")
        p1       == [ param EXCEPT !.source_width  = ctx.width,
                                   !.source_height = ctx.height ]
        p2       == OptionFields(p1, o)
        fr       == ConfigFrameRate(ctx)
    IN  [ p2 EXCEPT
            !.target_bit_rate        = ctx.bit_rate,
            !.intra_period           = IF ctx.gop_size > 0
                                       THEN ctx.gop_size - 1 ELSE @,
            !.frame_rate_numerator   = fr.num,
            !.frame_rate_denominator = fr.den,
            !.max_qp_allowed         = IF p2.rate_control_mode # 0
                                       THEN ctx.qmax ELSE @,
            !.min_qp_allowed         = IF p2.rate_control_mode # 0
                                       THEN ctx.qmin ELSE @,
            !.intra_refresh_type     = IF ctx.closed_gop THEN 2 ELSE 1,
            !.encoder_bit_depth      = IF ten_bits THEN 10 ELSE @ ]

\* config_enc_params as a whole: the configuration, then alloc_buffer
config_enc_params(param, ctx, o, outcome) ==
    LET p == ConfigParams(param, ctx, o)
        a == alloc_buffer(p, outcome)
    IN  [ param |-> p, ret |-> a.ret, raw_size |-> a.raw_size,
          in_buf |-> a.in_buf, pool |-> a.pool,
          got |-> a.got, rel |-> a.rel ]

(***************************************************************************)
(* read_in_data: the plane pointers and strides carry no adapter state;    *)
(* the filled length of the descriptor is increased by one frame's size.   *)
(***************************************************************************)
read_in_data(config, headerPtr) ==
    LET is16bit   == IF config.encoder_bit_depth > 8 THEN 1 ELSE 0
        luma_size == (config.source_width * config.source_height)
                       * (IF is16bit = 1 THEN 2 ELSE 1)
    IN  [ headerPtr EXCEPT
            !.n_filled_len = @ + ((luma_size * 3) \div 2) ]

\* the switch on frame->pict_type of eb_send_frame
PicTypeOf(pict_type, forced_idr) ==
    CASE pict_type = "AV_PICTURE_TYPE_I" ->
            IF forced_idr > 0 THEN "EB_IDR_PICTURE" ELSE "EB_I_PICTURE"
      [] pict_type = "AV_PICTURE_TYPE_P" -> "EB_P_PICTURE"
      [] pict_type = "AV_PICTURE_TYPE_B" -> "EB_B_PICTURE"
      [] OTHER -> "EB_INVALID_PICTURE"

(***************************************************************************)
(* State.                                                                  *)
(***************************************************************************)
VARIABLES
    avctx,        \* AVCodecContext fields the adapter reads
    opt,          \* SvtContext user options
    enc_params,   \* SvtContext.enc_params
    svt_handle,   \* SvtContext.svt_handle: "null", "live" or "freed"
    in_buf,       \* SvtContext.in_buf
    raw_size,     \* SvtContext.raw_size
    pool,         \* SvtContext.pool is set
    eos_flag,     \* SvtContext.eos_flag
    phase,        \* where the host is in the codec's lifecycle
    engine_log,   \* the engine's lifecycle entry points called so far
    engine_eos,   \* the engine has been sent the end-of-stream picture
    ncalls,       \* send_frame / receive_packet calls made so far
    last,         \* the most recent callback: what it did and returned
    triggered,    \* eos_flag has been EOS_TOTRIGGER since init
    heap,         \* allocations and releases of the descriptor, payload, pool
    mapped        \* argument and result of an error_mapping evaluation

vars == << avctx, opt, enc_params, svt_handle, in_buf, raw_size, pool,
           eos_flag, phase, engine_log, engine_eos, ncalls, last,
           triggered, heap, mapped >>

ctxvars == << avctx, opt >>

NoCall ==
    [ op |-> "none", ret |-> 0, asked |-> FALSE, engine_ret |-> 0,
      delivered |-> FALSE, released |-> 0, taken |-> FALSE,
      hdr_flags |-> 0, pkt_size |-> 0, pkt_flags |-> {} ]

ZeroConfig == [ f \in DOMAIN EngineDefaults |-> 0 ]

(***************************************************************************)
(* Inputs.                                                                 *)
(***************************************************************************)
\* the option table: each option at the ends of its declared range
OptAll ==
    [ enc_mode : {0, 9}, level : {0, 255}, rc_mode : {0, 1, 2},
      tune : {0, 2}, qp : {0, 51}, base_layer_switch_mode : {0, 1},
      forced_idr : {0} ]

\* the option defaults, with forced-idr over its range
OptLife ==
    [ enc_mode : {9}, level : {0}, rc_mode : {0}, tune : {0}, qp : {32},
      base_layer_switch_mode : {0}, forced_idr : {-1, 0, 1} ]

Rational(n, d) == [ num |-> n, den |-> d ]

AvctxAll ==
    [ width : {64, 1920}, height : {48, 1080},
      pix_fmt : { "AV_PIX_FMT_YUV420P", "AV_PIX_FMT_YUV420P10LE" },
      bit_rate : {400000, 7000000}, gop_size : {-1, 12},
      framerate : { Rational(0, 1), Rational(25, 1),
                    Rational(30000, 1001), Rational(24, 0) },
      time_base : { Rational(1, 25), Rational(1001, 30000) },
      ticks_per_frame : {1, 2},
      qmin : {10}, qmax : {48}, closed_gop : {FALSE} ]

AvctxLife ==
    [ width : {64}, height : {48},
      pix_fmt : { "AV_PIX_FMT_YUV420P", "AV_PIX_FMT_YUV420P10LE" },
      bit_rate : {7000000}, gop_size : {-1},
      framerate : { Rational(25, 1) }, time_base : { Rational(1, 25) },
      ticks_per_frame : {1},
      qmin : {10}, qmax : {48}, closed_gop : {FALSE} ]

\* what each engine entry point can give back
InitHandleRets == { EB_ErrorNone, EB_ErrorInsufficientResources,
                    EB_ErrorBadParameter }
SetParameterRets == { EB_ErrorNone, EB_ErrorBadParameter }
InitEncoderRets == { EB_ErrorNone, EB_ErrorInsufficientResources,
                     EB_ErrorCreateThreadFailed }
SendPictureRets == { EB_ErrorNone, EB_ErrorBadParameter }
GetPacketRets == { EB_ErrorNone, EB_NoErrorEmptyQueue, EB_ErrorMax }

\* lengths the engine reports for an output packet: none, a small one, and
\* one above the raw size of the frames drawn for the lifecycle
PacketLens == { 0, 100, 10000 }

\* an output packet of the engine: the end-of-stream bit only once the
\* engine has been sent the end-of-stream picture; an unknown flag value
\* comes with EB_ErrorMax
Headers(ret, eos_sent) ==
    [ flags : IF ret = EB_ErrorMax THEN {4}
              ELSE {0, EB_BUFFERFLAG_SHOW_EXT}
                   \cup (IF eos_sent
                         THEN { EB_BUFFERFLAG_EOS,
                                EB_BUFFERFLAG_EOS + EB_BUFFERFLAG_SHOW_EXT }
                         ELSE {}),
      pic_type : { "EB_IDR_PICTURE", "EB_P_PICTURE", "EB_NON_REF_PICTURE" },
      n_filled_len : PacketLens ]

PictTypes == { "AV_PICTURE_TYPE_I", "AV_PICTURE_TYPE_P",
               "AV_PICTURE_TYPE_B", "AV_PICTURE_TYPE_NONE" }

(***************************************************************************)
(* The state after the host allocated the codec context and set the        *)
(* options, before eb_enc_init.                                            *)
(***************************************************************************)
InitWith(ctxs, opts) ==
    /\ avctx \in ctxs
    /\ opt \in opts
    /\ enc_params = ZeroConfig
    /\ svt_handle = "null"
    /\ in_buf = NullBuf
    /\ raw_size = 0
    /\ pool = FALSE
    /\ eos_flag = EOS_NOT_REACHED
    /\ phase = "new"
    /\ engine_log = << >>
    /\ engine_eos = FALSE
    /\ ncalls = 0
    /\ last = NoCall
    /\ triggered = FALSE
    /\ heap = [ allocd |-> NoCounts, freed |-> NoCounts ]
    /\ mapped = [ svt_ret |-> EB_ErrorNone, err |-> 0 ]

Init == InitWith(AvctxLife, OptLife)

(***************************************************************************)
(* eb_enc_init.                                                            *)
(***************************************************************************)
EngineCall(by, fn, ret) == [ by |-> by, fn |-> fn, ret |-> ret ]

\* eb_enc_init without the test of what eb_vp9_svt_enc_set_parameter gave
\* back: the encoder is initialised whatever the parameter set said
InitStepsNoParamTest(r1, cfg_ret, r2, r3) ==
    LET ih == EngineCall("init", "eb_vp9_svt_init_handle", r1)
        sp == EngineCall("init", "eb_vp9_svt_enc_set_parameter", r2)
        ie == EngineCall("init", "eb_vp9_init_encoder", r3)
        dh == EngineCall("init", "eb_vp9_deinit_handle", EB_ErrorNone)
    IN  IF r1 # EB_ErrorNone
        THEN [ calls |-> << ih >>, svt_ret |-> r1, exit |-> "failed" ]
        ELSE IF cfg_ret # EB_ErrorNone
        THEN [ calls |-> << ih, dh >>, svt_ret |-> cfg_ret,
               exit |-> "failed_init_handle" ]
        ELSE IF r3 # EB_ErrorNone
        THEN [ calls |-> << ih, sp, ie, dh >>, svt_ret |-> r3,
               exit |-> "failed_init_handle" ]
        ELSE [ calls |-> << ih, sp, ie >>, svt_ret |-> r3, exit |-> "ok" ]

\* The engine calls eb_enc_init makes and the svt_ret it ends with, given
\* what each step gives back: r1 eb_vp9_svt_init_handle, cfg_ret
\* config_enc_params (an int stored in the EbErrorType svt_ret), r2
\* eb_vp9_svt_enc_set_parameter, r3 eb_vp9_init_encoder.
InitSteps(r1, cfg_ret, r2, r3) ==
    LET ih == EngineCall("init", "eb_vp9_svt_init_handle", r1)
        sp == EngineCall("init", "eb_vp9_svt_enc_set_parameter", r2)
        ie == EngineCall("init", "eb_vp9_init_encoder", r3)
        dh == EngineCall("init", "eb_vp9_deinit_handle", EB_ErrorNone)
    IN  IF r1 # EB_ErrorNone
        THEN [ calls |-> << ih >>, svt_ret |-> r1, exit |-> "failed" ]
        ELSE IF cfg_ret # EB_ErrorNone
        THEN [ calls |-> << ih, dh >>, svt_ret |-> cfg_ret,
               exit |-> "failed_init_handle" ]
        ELSE IF r2 # EB_ErrorNone
        THEN [ calls |-> << ih, sp, dh >>, svt_ret |-> r2,
               exit |-> "failed_init_handle" ]
        ELSE IF r3 # EB_ErrorNone
        THEN [ calls |-> << ih, sp, ie, dh >>, svt_ret |-> r3,
               exit |-> "failed_init_handle" ]
        ELSE [ calls |-> << ih, sp, ie >>, svt_ret |-> r3, exit |-> "ok" ]

\* the value eb_enc_init returns
InitReturn(steps) ==
    IF steps.exit = "ok" THEN 0 ELSE error_mapping(steps.svt_ret)

eb_enc_init ==
    /\ phase = "new"
    /\ \E r1 \in InitHandleRets, outcome \in AllocOutcomes,
          r2 \in SetParameterRets, r3 \in InitEncoderRets :
         LET configured == r1 = EB_ErrorNone
             cfg   == config_enc_params(EngineDefaults, avctx, opt, outcome)
             steps == InitSteps(r1, cfg.ret, r2, r3)
             freed == free_buffer(IF configured THEN cfg.in_buf ELSE in_buf,
                                  IF configured THEN cfg.pool ELSE pool)
         IN  /\ enc_params' = IF configured THEN cfg.param ELSE enc_params
             /\ raw_size' = IF configured THEN cfg.raw_size ELSE raw_size
             /\ in_buf' = IF steps.exit = "ok" THEN cfg.in_buf
                          ELSE freed.in_buf
             /\ pool' = IF steps.exit = "ok" THEN cfg.pool ELSE freed.pool
             /\ svt_handle' = CASE steps.exit = "ok" -> "live"
                                [] steps.exit = "failed_init_handle" -> "freed"
                                [] OTHER -> svt_handle
             /\ heap' = [ allocd |-> IF configured
                                      THEN AddCounts(heap.allocd, cfg.got)
                                      ELSE heap.allocd,
                          freed  |-> AddCounts(
                                       IF configured
                                       THEN AddCounts(heap.freed, cfg.rel)
                                       ELSE heap.freed,
                                       IF steps.exit = "ok" THEN NoCounts
                                       ELSE freed.rel) ]
             /\ engine_log' = engine_log \o steps.calls
             /\ phase' = IF steps.exit = "ok" THEN "ready" ELSE "failed"
             /\ last' = [ NoCall EXCEPT !.op = "init",
                                        !.ret = InitReturn(steps),
                                        !.asked = TRUE,
                                        !.engine_ret = steps.svt_ret ]
    /\ eos_flag' = EOS_NOT_REACHED
    /\ triggered' = FALSE
    /\ UNCHANGED << ctxvars, engine_eos, ncalls, mapped >>

(***************************************************************************)
(* eb_send_frame.  The value eb_vp9_svt_enc_send_picture gives back is     *)
(* not read.                                                               *)
(***************************************************************************)
\* the value eb_send_frame returns, r being what the engine gave back
SendReturn(r) == 0

\* eos_flag after eb_send_frame(NULL)
EosAfterNull(eos) == EOS_REACHED

eb_send_frame ==
    /\ phase = "ready"
    /\ ncalls < MaxCalls
    /\ ncalls' = ncalls + 1
    /\ \/ \* frame == NULL
          \E r \in SendPictureRets :
            /\ eos_flag' = EosAfterNull(eos_flag)
            /\ engine_eos' = (engine_eos \/ r = EB_ErrorNone)
            /\ last' = [ NoCall EXCEPT !.op = "send_null",
                                       !.ret = SendReturn(r),
                                       !.asked = TRUE, !.engine_ret = r ]
            /\ UNCHANGED in_buf
       \/ \* frame != NULL
          \E r \in SendPictureRets, pict_type \in PictTypes :
            /\ in_buf' = [ read_in_data(enc_params, in_buf) EXCEPT
                             !.flags = 0,
                             !.pic_type = PicTypeOf(pict_type,
                                                    opt.forced_idr) ]
            /\ last' = [ NoCall EXCEPT !.op = "send_frame",
                                       !.ret = SendReturn(r),
                                       !.asked = TRUE, !.engine_ret = r ]
            /\ UNCHANGED << eos_flag, engine_eos >>
    /\ triggered' = (triggered \/ eos_flag' = EOS_TOTRIGGER)
    /\ UNCHANGED << ctxvars, enc_params, svt_handle, raw_size, pool, phase,
                    engine_log, heap, mapped >>

(***************************************************************************)
(* eb_receive_packet.                                                      *)
(***************************************************************************)
\* eos_flag after a packet with these flags was copied out (line 384)
EosAfterPacket(eos, flags) ==
    IF EB_BUFFERFLAG_EOS = flags THEN EOS_TOTRIGGER ELSE eos

\* the flags eb_receive_packet ORs into the packet
PacketFlags(hdr) ==
    (IF hdr.pic_type \in { "EB_IDR_PICTURE", "EB_I_PICTURE" }
     THEN { "AV_PKT_FLAG_KEY" } ELSE {})
    \cup (IF hdr.pic_type = "EB_NON_REF_PICTURE"
          THEN { "AV_PKT_FLAG_DISPOSABLE" } ELSE {})
    \cup (IF HasFlag(hdr.flags, EB_BUFFERFLAG_SHOW_EXT)
          THEN { "AV_PKT_FLAG_SVT_VP9_EXT_ON" }
          ELSE { "AV_PKT_FLAG_SVT_VP9_EXT_OFF" })

\* the record of an eb_receive_packet call that asked the engine
ReceiveBase(r) ==
    [ NoCall EXCEPT !.op = "receive_packet", !.asked = TRUE,
                    !.engine_ret = r ]

\* the empty-queue return with the test placed after av_buffer_pool_get:
\* a pool buffer is taken and never handed on
ReceiveEmptyAfterPoolGet(eos, r) ==
    [ eos |-> eos,
      call |-> [ ReceiveBase(r) EXCEPT !.ret = AVERROR_EAGAIN,
                                       !.taken = TRUE ] ]

\* the engine's queue is empty (lines 358 and 359)
ReceiveEmpty(eos, r) ==
    [ eos |-> eos, call |-> [ ReceiveBase(r) EXCEPT !.ret = AVERROR_EAGAIN ] ]

\* the allocation-failure return without the release of the engine's buffer
ReceiveNoBufferNoRelease(eos, r, hdr) ==
    [ eos |-> eos,
      call |-> [ ReceiveBase(r) EXCEPT !.ret = AVERROR_ENOMEM,
                                       !.hdr_flags = hdr.flags ] ]

\* av_buffer_pool_get gave no buffer (lines 362 to 366)
ReceiveNoBuffer(eos, r, hdr) ==
    [ eos |-> eos,
      call |-> [ ReceiveBase(r) EXCEPT !.ret = AVERROR_ENOMEM,
                                       !.hdr_flags = hdr.flags,
                                       !.released = 1 ] ]

\* the packet is copied out (lines 367 to 388): n_filled_len bytes go into
\* the pool buffer, whatever its size
ReceiveDeliver(eos, r, hdr) ==
    [ eos |-> EosAfterPacket(eos, hdr.flags),
      call |-> [ ReceiveBase(r) EXCEPT !.ret = 0,
                                       !.delivered = TRUE,
                                       !.taken = TRUE,
                                       !.hdr_flags = hdr.flags,
                                       !.pkt_size = hdr.n_filled_len,
                                       !.pkt_flags = PacketFlags(hdr),
                                       !.released = 1 ] ]

\* What eb_receive_packet does once eb_vp9_svt_get_packet gave back r with
\* the packet hdr, got saying whether av_buffer_pool_get gave a buffer.
ReceiveResult(eos, r, hdr, got) ==
    IF r = EB_NoErrorEmptyQueue THEN ReceiveEmpty(eos, r)
    ELSE IF ~got THEN ReceiveNoBuffer(eos, r, hdr)
    ELSE ReceiveDeliver(eos, r, hdr)

\* How a call can end: a memcpy of more bytes than the pool buffer holds
\* writes past its end, after which the process may go on or stop.
ReceiveEndings(call, size) ==
    IF call.delivered /\ call.pkt_size > size
    THEN { "returned", "crashed" } ELSE { "returned" }

eb_receive_packet ==
    /\ phase = "ready"
    /\ ncalls < MaxCalls
    /\ ncalls' = ncalls + 1
    /\ \/ /\ EOS_TOTRIGGER = eos_flag
          /\ last' = [ NoCall EXCEPT !.op = "receive_packet",
                                     !.ret = AVERROR_EOF ]
          /\ UNCHANGED << eos_flag, phase >>
       \/ /\ EOS_TOTRIGGER # eos_flag
          /\ \E r \in GetPacketRets, got \in BOOLEAN :
               \E hdr \in Headers(r, engine_eos) :
                 LET res == ReceiveResult(eos_flag, r, hdr, got)
                 IN  \E ending \in ReceiveEndings(res.call, raw_size) :
                       /\ eos_flag' = res.eos
                       /\ IF ending = "returned"
                          THEN /\ last' = res.call
                               /\ phase' = phase
                          ELSE /\ last' = [ res.call EXCEPT
                                              !.op = "receive_crashed" ]
                               /\ phase' = "crashed"
    /\ triggered' = (triggered \/ eos_flag' = EOS_TOTRIGGER)
    /\ UNCHANGED << ctxvars, enc_params, svt_handle, in_buf, raw_size, pool,
                    engine_log, engine_eos, heap, mapped >>

(***************************************************************************)
(* eb_enc_close.  The host runs it after eb_enc_init, failed or not        *)
(* (FF_CODEC_CAP_INIT_CLEANUP).  Both deinit calls are made whatever the   *)
(* state of the handle; on a handle that is not live the behaviour of the  *)
(* engine is undefined, and the process may stop at either call.           *)
(***************************************************************************)
\* the engine calls eb_enc_close makes; stop says where the process
\* stopped: "no", "eb_vp9_deinit_encoder" or "eb_vp9_deinit_handle"
CloseCalls(stop) ==
    LET de == EngineCall("close", "eb_vp9_deinit_encoder", EB_ErrorNone)
        dh == EngineCall("close", "eb_vp9_deinit_handle", EB_ErrorNone)
    IN  IF stop = "eb_vp9_deinit_encoder" THEN << de >> ELSE << de, dh >>

eb_enc_close ==
    /\ phase \in { "ready", "failed" }
    /\ \E stop \in IF svt_handle = "live" THEN { "no" }
                   ELSE { "no", "eb_vp9_deinit_encoder",
                          "eb_vp9_deinit_handle" } :
         /\ engine_log' = engine_log \o CloseCalls(stop)
         /\ IF stop = "no"
            THEN /\ phase' = "closed"
                 /\ svt_handle' = "freed"
                 /\ in_buf' = free_buffer(in_buf, pool).in_buf
                 /\ pool' = free_buffer(in_buf, pool).pool
                 /\ heap' = [ heap EXCEPT
                                !.freed = AddCounts(
                                    @, free_buffer(in_buf, pool).rel) ]
                 /\ last' = [ NoCall EXCEPT !.op = "close", !.ret = 0 ]
            ELSE /\ phase' = "crashed"
                 /\ last' = [ NoCall EXCEPT !.op = "close_crashed" ]
                 /\ UNCHANGED << svt_handle, in_buf, pool, heap >>
    /\ UNCHANGED << ctxvars, enc_params, raw_size, eos_flag, engine_eos,
                    ncalls, triggered, mapped >>

Next ==
    \/ eb_enc_init
    \/ eb_send_frame
    \/ eb_receive_packet
    \/ eb_enc_close

Spec == Init /\ [][Next]_vars

(***************************************************************************)
(* The pure functions on their own: the inputs are drawn at the start and  *)
(* one function is applied.                                                *)
(***************************************************************************)
PureInit == InitWith(AvctxAll, OptAll)

\* error_mapping on an engine error code
ApplyErrorMapping ==
    /\ phase = "new"
    /\ \E code \in EbErrorCodes :
         mapped' = [ svt_ret |-> code, err |-> error_mapping(code) ]
    /\ phase' = "mapped"
    /\ UNCHANGED << ctxvars, enc_params, svt_handle, in_buf, raw_size, pool,
                    eos_flag, engine_log, engine_eos, ncalls, last,
                    triggered, heap >>

\* config_enc_params on the configuration the engine initialised
ApplyConfigEncParams ==
    /\ phase = "new"
    /\ \E outcome \in AllocOutcomes :
         LET cfg == config_enc_params(EngineDefaults, avctx, opt, outcome)
         IN  /\ enc_params' = cfg.param
             /\ raw_size' = cfg.raw_size
             /\ in_buf' = cfg.in_buf
             /\ pool' = cfg.pool
             /\ heap' = [ allocd |-> AddCounts(heap.allocd, cfg.got),
                          freed  |-> AddCounts(heap.freed, cfg.rel) ]
             /\ last' = [ NoCall EXCEPT !.op = "config_enc_params",
                                        !.ret = cfg.ret ]
    /\ phase' = "configured"
    /\ UNCHANGED << ctxvars, svt_handle, eos_flag, engine_log, engine_eos,
                    ncalls, triggered, mapped >>

PureNext ==
    \/ ApplyErrorMapping
    \/ ApplyConfigEncParams

PureSpec == PureInit /\ [][PureNext]_vars

(***************************************************************************)
(* Properties.                                                             *)
(***************************************************************************)
\* a step that is one send_frame / receive_packet call
ReceiveStep == ncalls' = ncalls + 1 /\ last'.op = "receive_packet"

\* positions of the engine log holding a call of fn
CallsOf(fn) == { i \in DOMAIN engine_log : engine_log[i].fn = fn }

\* a call of fn that gave back EB_ErrorNone comes before position i
SucceededBefore(fn, i) ==
    \E j \in CallsOf(fn) : j < i /\ engine_log[j].ret = EB_ErrorNone

\* C1: between a successful eb_enc_init and eb_enc_close the end-of-stream
\* flag only moves not-reached -> reached and reached -> to-trigger, and
\* never back to an earlier value.
C1_EosFlagNeverRegresses ==
    [][ (phase = "ready" /\ phase' = "ready")
        => \/ eos_flag' = eos_flag
           \/ eos_flag = EOS_NOT_REACHED /\ eos_flag' = EOS_REACHED
           \/ eos_flag = EOS_REACHED /\ eos_flag' = EOS_TOTRIGGER ]_vars

\* C2: once the end-of-stream flag has been to-trigger, every later
\* eb_receive_packet call returns AVERROR_EOF, does not ask the engine for
\* a packet and does not fill the caller's packet.
C2_EofAfterToTrigger ==
    [][ (triggered /\ ReceiveStep)
        => /\ last'.ret = AVERROR_EOF
           /\ ~last'.asked
           /\ ~last'.delivered ]_vars

\* C3: draining terminates.  The eb_receive_packet call that is handed the
\* engine's final packet, one carrying the end-of-stream flag bit whatever
\* its other flag bits, sets the flag to to-trigger, so that the next
\* eb_receive_packet call returns AVERROR_EOF.
C3_FinalPacketSetsToTrigger ==
    [][ ( /\ ReceiveStep
          /\ last'.engine_ret = EB_ErrorNone
          /\ last'.ret = 0
          /\ HasFlag(last'.hdr_flags, EB_BUFFERFLAG_EOS) )
        => eos_flag' = EOS_TOTRIGGER ]_vars

\* C4: error_mapping translates every engine error code to its host code:
\* insufficient resources to AVERROR(ENOMEM); undefined, invalid component
\* and bad parameter to AVERROR(EINVAL); the thread, semaphore and mutex
\* failures to AVERROR_EXTERNAL; empty queue to AVERROR(EAGAIN);
\* EB_ErrorNone to 0; any other value to AVERROR_UNKNOWN.
C4_ErrorMappingTable ==
    phase = "mapped" =>
        LET c == mapped.svt_ret
        IN  mapped.err =
              CASE c = EB_ErrorInsufficientResources -> AVERROR_ENOMEM
                [] c = EB_ErrorUndefined -> AVERROR_EINVAL
                [] c = EB_ErrorInvalidComponent -> AVERROR_EINVAL
                [] c = EB_ErrorBadParameter -> AVERROR_EINVAL
                [] c = EB_ErrorDestroyThreadFailed -> AVERROR_EXTERNAL
                [] c = EB_ErrorSemaphoreUnresponsive -> AVERROR_EXTERNAL
                [] c = EB_ErrorDestroySemaphoreFailed -> AVERROR_EXTERNAL
                [] c = EB_ErrorCreateMutexFailed -> AVERROR_EXTERNAL
                [] c = EB_ErrorMutexUnresponsive -> AVERROR_EXTERNAL
                [] c = EB_ErrorDestroyMutexFailed -> AVERROR_EXTERNAL
                [] c = EB_NoErrorEmptyQueue -> AVERROR_EAGAIN
                [] c = EB_ErrorNone -> 0
                [] OTHER -> AVERROR_UNKNOWN

\* C5: engine errors are passed through.  When the engine call made inside
\* eb_send_frame or eb_receive_packet reported an error, the adapter call
\* returned a non-zero code and delivered no packet.
C5_EngineErrorsPassedThrough ==
    ( /\ last.op \in { "send_null", "send_frame", "receive_packet" }
      /\ last.asked
      /\ last.engine_ret # EB_ErrorNone )
    => (last.ret # 0 /\ ~last.delivered)

\* C6: after config_enc_params the engine configuration holds the user
\* options unchanged: enc_mode, level, rate_control_mode, tune,
\* base_layer_switch_mode and qp are the preset, level, rc, tune, bl_mode
\* and qp options, and source_width, source_height and target_bit_rate are
\* the codec context's width, height and bit_rate.
C6_OptionsCopiedUnchanged ==
    phase = "configured" =>
        /\ enc_params.enc_mode = opt.enc_mode
        /\ enc_params.level = opt.level
        /\ enc_params.rate_control_mode = opt.rc_mode
        /\ enc_params.tune = opt.tune
        /\ enc_params.base_layer_switch_mode = opt.base_layer_switch_mode
        /\ enc_params.qp = opt.qp
        /\ enc_params.source_width = avctx.width
        /\ enc_params.source_height = avctx.height
        /\ enc_params.target_bit_rate = avctx.bit_rate

\* config_enc_params ran on options at the ends of their ranges, each
\* different from the value the engine's defaults give the field
C6_Witness ==
    /\ phase = "configured"
    /\ opt.enc_mode = 0 /\ opt.level = 255 /\ opt.rc_mode = 2
    /\ opt.tune = 2 /\ opt.qp = 51 /\ opt.base_layer_switch_mode = 1
    /\ enc_params.level = 255 /\ enc_params.rate_control_mode = 2
    /\ enc_params.qp = 51
    /\ enc_params.source_width = 1920 /\ enc_params.source_height = 1080

\* C7: frame-rate selection in config_enc_params.  With the framerate's
\* numerator and denominator both above 0 the engine gets framerate.num
\* over framerate.den * ticks_per_frame; otherwise it gets time_base.den
\* over time_base.num * ticks_per_frame.
C7_FrameRateSelection ==
    phase = "configured" =>
        IF avctx.framerate.num > 0 /\ avctx.framerate.den > 0
        THEN /\ enc_params.frame_rate_numerator = avctx.framerate.num
             /\ enc_params.frame_rate_denominator
                  = avctx.framerate.den * avctx.ticks_per_frame
        ELSE /\ enc_params.frame_rate_numerator = avctx.time_base.den
             /\ enc_params.frame_rate_denominator
                  = avctx.time_base.num * avctx.ticks_per_frame

\* config_enc_params ran on a framerate whose numerator is set and whose
\* denominator is not, and fell back to the time base with two ticks per
\* frame
C7_Witness ==
    /\ phase = "configured"
    /\ avctx.framerate = Rational(24, 0)
    /\ avctx.time_base = Rational(1001, 30000)
    /\ avctx.ticks_per_frame = 2
    /\ enc_params.frame_rate_numerator = 30000
    /\ enc_params.frame_rate_denominator = 2002

\* C8: eb_enc_init drives the engine in the order handle init, parameter
\* set, encoder init: the parameter set is called only right after a handle
\* init that succeeded, the encoder init only right after a parameter set
\* that succeeded, eb_enc_init returns 0 only if all three succeeded, and
\* eb_enc_close calls eb_vp9_deinit_encoder before eb_vp9_deinit_handle.
C8_InitAndCloseOrder ==
    /\ \A i \in CallsOf("eb_vp9_svt_enc_set_parameter") :
         /\ i > 1
         /\ engine_log[i - 1].fn = "eb_vp9_svt_init_handle"
         /\ engine_log[i - 1].ret = EB_ErrorNone
    /\ \A i \in CallsOf("eb_vp9_init_encoder") :
         /\ i > 1
         /\ engine_log[i - 1].fn = "eb_vp9_svt_enc_set_parameter"
         /\ engine_log[i - 1].ret = EB_ErrorNone
    /\ (last.op = "init" /\ last.ret = 0)
         => /\ Len(engine_log) = 3
            /\ engine_log[1].fn = "eb_vp9_svt_init_handle"
            /\ engine_log[2].fn = "eb_vp9_svt_enc_set_parameter"
            /\ engine_log[3].fn = "eb_vp9_init_encoder"
            /\ \A i \in 1..3 : engine_log[i].ret = EB_ErrorNone
    /\ \A i \in CallsOf("eb_vp9_deinit_handle") :
         engine_log[i].by = "close"
           => /\ i > 1
              /\ engine_log[i - 1].by = "close"
              /\ engine_log[i - 1].fn = "eb_vp9_deinit_encoder"

\* an instance was initialised with all three engine steps succeeding, used
\* and closed
C8_Witness ==
    /\ phase = "closed"
    /\ ncalls > 0
    /\ Len(engine_log) = 5
    /\ engine_log[3].fn = "eb_vp9_init_encoder"
    /\ engine_log[3].ret = EB_ErrorNone
    /\ engine_log[5].fn = "eb_vp9_deinit_handle"

\* C9: over a lifecycle of one instance, eb_enc_init failing at any step or
\* not and eb_enc_close following, the engine handle is deinitialized at
\* most once and only after eb_vp9_svt_init_handle succeeded, and
\* eb_vp9_deinit_encoder is called only on an engine whose
\* eb_vp9_init_encoder succeeded.
C9_DeinitOnceAndOnlyInitialized ==
    /\ Cardinality(CallsOf("eb_vp9_deinit_handle")) <= 1
    /\ \A i \in CallsOf("eb_vp9_deinit_handle") :
         SucceededBefore("eb_vp9_svt_init_handle", i)
    /\ \A i \in CallsOf("eb_vp9_deinit_encoder") :
         SucceededBefore("eb_vp9_init_encoder", i)

\* C10: when alloc_buffer fails inside eb_enc_init (config_enc_params gave
\* back AVERROR(ENOMEM)), eb_enc_init returns AVERROR(ENOMEM).
C10_AllocFailureReturnsENOMEM ==
    (last.op = "init" /\ last.engine_ret = AVERROR_ENOMEM)
    => last.ret = AVERROR_ENOMEM

\* the byte size of one frame of the configured stream
FrameBytes ==
    ((avctx.width * avctx.height * 3) \div 2)
      * (IF enc_params.encoder_bit_depth > 8 THEN 2 ELSE 1)

\* C11: for every non-NULL frame submitted through eb_send_frame, the
\* filled length of the input descriptor handed to the engine is the byte
\* size of exactly one frame, width * height * 3/2 (doubled above 8 bits),
\* however many frames were submitted before.
C11_FilledLenIsOneFrame ==
    last.op = "send_frame" => in_buf.n_filled_len = FrameBytes

\* C12: every output buffer eb_receive_packet obtains from the engine is
\* released back to it exactly once before the call returns, on the success
\* path and on the allocation-failure path alike; when no buffer was
\* obtained (empty queue, to-trigger state) no release is made.
C12_OutputBufferReleasedOnce ==
    last.op = "receive_packet" =>
        last.released
          = IF last.asked /\ last.engine_ret # EB_NoErrorEmptyQueue
            THEN 1 ELSE 0

\* an engine buffer was obtained and the pool gave no buffer for the packet
C12_Witness ==
    /\ last.op = "receive_packet"
    /\ last.asked
    /\ last.engine_ret = EB_ErrorNone
    /\ last.ret = AVERROR_ENOMEM
    /\ ~last.delivered
    /\ last.released = 1

\* C13: the number of bytes eb_receive_packet copies into the output packet
\* never exceeds the size of the pool buffer behind it (raw_size), for any
\* packet length the engine reports.
C13_CopyWithinPoolBuffer ==
    (last.op \in { "receive_packet", "receive_crashed" } /\ last.delivered)
    => last.pkt_size <= raw_size

\* C14: when the engine reports an empty output queue, eb_receive_packet
\* returns AVERROR(EAGAIN) and leaves the adapter state unchanged: the
\* end-of-stream flag keeps its value, no pool buffer is taken and the
\* caller's packet is not modified.
C14_EmptyQueueLeavesState ==
    [][ ( /\ ReceiveStep
          /\ last'.asked
          /\ last'.engine_ret = EB_NoErrorEmptyQueue )
        => /\ last'.ret = AVERROR_EAGAIN
           /\ eos_flag' = eos_flag
           /\ ~last'.taken
           /\ ~last'.delivered
           /\ last'.pkt_size = 0 /\ last'.pkt_flags = {}
           /\ in_buf' = in_buf /\ pool' = pool /\ raw_size' = raw_size
           /\ enc_params' = enc_params /\ svt_handle' = svt_handle ]_vars

\* the engine reported an empty queue while the stream was draining
C14_Witness ==
    /\ last.op = "receive_packet"
    /\ last.asked
    /\ last.engine_ret = EB_NoErrorEmptyQueue
    /\ last.ret = AVERROR_EAGAIN
    /\ eos_flag = EOS_REACHED

\* C15: free_buffer is idempotent and complete.  Nothing is released more
\* often than it was allocated, whatever alloc_buffer left allocated and
\* however often free_buffer ran (in alloc_buffer, in the failed
\* eb_enc_init, in eb_enc_close); and once it ran, the descriptor pointer
\* and the pool pointer are null and the descriptor, its payload and the
\* pool have each been released as often as allocated.
C15_FreeBufferIdempotent ==
    /\ heap.freed.desc <= heap.allocd.desc
    /\ heap.freed.payload <= heap.allocd.payload
    /\ heap.freed.pool <= heap.allocd.pool
    /\ phase \in { "failed", "closed" }
         => /\ ~in_buf.ptr
            /\ ~pool
            /\ heap.freed = heap.allocd

\* alloc_buffer failed at the pool with the descriptor and its payload
\* allocated, free_buffer ran in alloc_buffer, in the failed eb_enc_init
\* and in eb_enc_close, and each was released once
C15_Witness ==
    /\ phase = "closed"
    /\ heap.allocd = [ desc |-> 1, payload |-> 1, pool |-> 0 ]
    /\ heap.freed = heap.allocd
    /\ ~in_buf.ptr /\ ~pool

====
